---- MODULE Spec2Model ----
(***************************************************************************)
(* A model of app.py: the Flask handlers index, log_action and             *)
(* upload_story, and the helpers save_last_video and get_last_video that   *)
(* keep the single cached record in last_video.json.                       *)
(*                                                                         *)
(* Each HTTP request is an instance r in Reqs.  A request touches the      *)
(* shared file only in three places: the open(..., "w") of                 *)
(* save_last_video (which truncates), the flush of json.dump at the end of *)
(* the with block, and the read in get_last_video's fallback.  These are   *)
(* the steps of the model; everything between two of them is local to the  *)
(* request and is folded into the step that follows it.                    *)
(*                                                                         *)
(* Strings are sequences of one-character strings, so that the bytes of    *)
(* the file, json.dump and json.load are modelled by what they do.         *)
(***************************************************************************)
EXTENDS Integers, Sequences, FiniteSets, TLC

VARIABLES
    file,        \* last_video.json: [exists, content]
    configured,  \* whether GOOGLE_SCRIPT_URL is set in the environment
    rq,          \* per request: position, locals, response, and what it met
    lastWriter   \* the request whose json.dump reached the file last (0: none)

vars == <<file, configured, rq, lastWriter>>

\* ------------------------------------------------------------------ bounds
NumRequests == 2
Reqs == 1..NumRequests

\* ------------------------------------------------------------ JSON values
Absent == [t |-> "absent", s |-> <<>>]   \* key not in the dict
Null == [t |-> "null", s |-> <<>>]       \* Python None / JSON null
Str(s) == [t |-> "str", s |-> s]

\* dict.get(key, default)
Get(v, default) == IF v = Absent THEN default ELSE v

\* Python truth value of None or a str
Truthy(v) == v.t = "str" /\ v.s # <<>>

\* Two URLs of different lengths, as the remote source or the media host
\* may return them.
U1 == <<"a">>
U2 == <<"b", "b">>
Urls == {U1, U2}

\* ------------------------------------------------------- last_video.json
\* json.dump as it would be if the str were written without its quotes.
json_dump_bare(v) ==
    <<"{", "k">> \o (IF v.t = "str" THEN v.s ELSE <<"n">>) \o <<"}">>

\* json.dump({"video_url": v}, f): "{" , the key and colon ("k"), the value,
\* "}".  A str is written between quotes, None as null ("n").
json_dump(v) ==
    <<"{", "k">> \o (IF v.t = "str" THEN <<"'">> \o v.s \o <<"'">> ELSE <<"n">>)
                 \o <<"}">>

ValueOk(m) ==
    \/ m = <<"n">>
    \/ /\ Len(m) >= 2
       /\ m[1] = "'"
       /\ m[Len(m)] = "'"
       /\ \A i \in 2..(Len(m) - 1) : m[i] \notin {"'", "{", "}", "k"}

\* json.load(f) succeeds: the content is exactly one object with the one key.
json_load_ok(c) ==
    /\ Len(c) >= 3
    /\ c[1] = "{"
    /\ c[2] = "k"
    /\ c[Len(c)] = "}"
    /\ ValueOk(SubSeq(c, 3, Len(c) - 1))

\* json.load(f).get("video_url") for a content json.load accepts.
json_load(c) ==
    LET m == SubSeq(c, 3, Len(c) - 1)
    IN IF m = <<"n">> THEN Null ELSE Str(SubSeq(m, 2, Len(m) - 1))

\* A write of data through a descriptor whose offset is 0: the bytes beyond
\* the data, if another writer put them there, stay.
WriteAt0(old, data) == data \o SubSeq(old, Len(data) + 1, Len(old))

NoFile == [exists |-> FALSE, content |-> <<>>]
Record(u) == [exists |-> TRUE, content |-> json_dump(Str(u))]

\* The file holds a record with a non-empty video_url.
HasUrl(f) == f.exists /\ json_load_ok(f.content) /\ Truthy(json_load(f.content))

\* ------------------------------------------------------------ environment
\* requests.get(GOOGLE_SCRIPT_URL, timeout=10) and the body it returns.  The
\* GET raises (a connection error), times out (requests.Timeout after the
\* 10 s), or returns a body that is no JSON, a JSON array, or a JSON object.
RemoteResponses ==
    {[net |-> n, json |-> "none", video_url |-> Absent] : n \in {"raise", "timeout"}}
    \cup {[net |-> "ok", json |-> j, video_url |-> Absent] : j \in {"invalid", "array"}}
    \cup {[net |-> "ok", json |-> "object", video_url |-> v] :
             v \in {Absent, Null, Str(<<>>)} \cup {Str(u) : u \in Urls}}
NoRemote == [net |-> "none", json |-> "none", video_url |-> Absent]

\* cloudinary.uploader.upload: raises, or returns the dict of the stored
\* asset, which carries its secure_url.
ProviderResults ==
    {[raises |-> TRUE, secure_url |-> Absent]}
    \cup {[raises |-> FALSE, secure_url |-> Str(u)] : u \in Urls}
NoProvider == [raises |-> FALSE, secure_url |-> Absent]

\* requests.post(GOOGLE_SCRIPT_URL, ..., timeout=10): the sink call returns,
\* raises (a connection error) or times out (requests.Timeout after the 10 s).
PostOutcomes == {"ok", "raise", "timeout"}

\* request.files of an upload request
UploadFiles ==
    {[has_video |-> FALSE, filename |-> <<>>],
     [has_video |-> TRUE, filename |-> <<>>],
     [has_video |-> TRUE, filename |-> <<"v">>]}
NoFiles == [has_video |-> FALSE, filename |-> <<>>]

\* The fixed secret of log_action.
Secret == <<"2", "3", "E", "5", "1", "A", "0", "5", "C", "1">>

Passwords ==
    {Absent, Null, Str(<<>>), Str(Secret),
     Str(<<"2", "3", "e", "5", "1", "a", "0", "5", "c", "1">>),
     Str(Secret \o <<" ">>),
     Str(<<"x">>)}

NoAction == "<absent>"

\* The body of a log_action request.
LogBodies ==
    {[form |-> f, password |-> Absent, action |-> NoAction] : f \in {"malformed", "array"}}
    \cup {[form |-> "object", password |-> p, action |-> NoAction] : p \in Passwords}
    \cup {[form |-> "object", password |-> Absent, action |-> "button_click"]}
NoBody == [form |-> "none", password |-> Absent, action |-> NoAction]

\* ------------------------------------------------------------- responses
NoResp == [status |-> "none", result |-> "", video_url |-> Null, error |-> ""]
Page(v) == [status |-> "page", result |-> "", video_url |-> v, error |-> ""]
Ok(result, v) == [status |-> "ok", result |-> result, video_url |-> v, error |-> ""]
Error(msg) == [status |-> "error", result |-> "", video_url |-> Null, error |-> msg]

\* ---------------------------------------------------------------- state
NewReq ==
    [pc |-> "new", kind |-> "none", body |-> NoBody, files |-> NoFiles,
     video_url |-> Null, resp |-> NoResp, eff |-> <<>>,
     remote |-> NoRemote, provider |-> NoProvider, wr |-> "none", rd |-> "none",
     sink |-> "none", pre |-> NoFile, post |-> NoFile]

\* The file outlives the process: at start it is absent (a fresh deployment)
\* or holds the record an earlier run left.
Init ==
    /\ file \in {NoFile} \cup {Record(u) : u \in Urls}
    /\ configured \in BOOLEAN
    /\ rq = [r \in Reqs |-> NewReq]
    /\ lastWriter = 0

\* The outcome of the sink call of a handler: skipped when GOOGLE_SCRIPT_URL
\* is not set, else one of the outcomes of requests.post.
SinkOutcomes == IF configured THEN PostOutcomes ELSE {"skipped"}

\* What the handler has done so far, with the sink call added when made.
Posted(eff, event, o) == IF o = "skipped" THEN eff ELSE Append(eff, event)


\* ------------------------------------------------------- get_last_video
\* Lines 43-45 raise: the GET fails, the body is no JSON, or the JSON value
\* has no get (it is not an object).
RemoteRaises(resp) == resp.net # "ok" \/ resp.json # "object"

\* The local video_url at line 46 (None when line 45 was not reached).
RemoteVideoUrl(resp) ==
    IF RemoteRaises(resp) THEN Null ELSE Get(resp.video_url, Null)

\* The fallback read as it would be if a content json.load rejects were not
\* caught.
LoadedVideoUrl_unchecked(c) == json_load(c)

\* The fallback read, lines 53-60, of a file that exists and can be opened.
LoadedVideoUrl(c) == IF json_load_ok(c) THEN json_load(c) ELSE Null

\* index, line 68, into get_last_video, lines 42-50: the remote GET.  With
\* no GOOGLE_SCRIPT_URL requests.get(None) raises.
get_last_video_remote(r) ==
    /\ rq[r].pc = "new"
    /\ \E resp \in RemoteResponses :
          /\ ~configured => resp.net = "raise"
          /\ LET v == RemoteVideoUrl(resp)
             IN rq' = [rq EXCEPT ![r] =
                    [@ EXCEPT !.kind = "index",
                              !.pre = file,
                              !.remote = resp,
                              !.video_url = IF Truthy(v) THEN v ELSE Null,
                              !.pc = IF Truthy(v) THEN "save_open" ELSE "fallback"]]
    /\ UNCHANGED <<file, configured, lastWriter>>

\* get_last_video, lines 52-60: os.path.exists, open, json.load, get.  Any
\* failure of the read is swallowed by the bare except.
get_last_video_fallback(r) ==
    /\ rq[r].pc = "fallback"
    /\ \E readable \in BOOLEAN :
          LET how == IF ~file.exists THEN "absent"
                     ELSE IF ~readable THEN "failed" ELSE "read"
              v == IF how = "read" THEN LoadedVideoUrl(file.content) ELSE Null
          IN rq' = [rq EXCEPT ![r] =
                 [@ EXCEPT !.rd = how, !.video_url = v, !.pc = "log"]]
    /\ UNCHANGED <<file, configured, lastWriter>>

\* ------------------------------------------------------ save_last_video
\* The open as it would be with a mode that does not truncate ("r+").
save_last_video_open_keep(r) ==
    /\ rq[r].pc = "save_open"
    /\ \E opened \in BOOLEAN :
          IF opened
          THEN /\ file' = [exists |-> TRUE, content |-> file.content]
               /\ rq' = [rq EXCEPT ![r] =
                      [@ EXCEPT !.eff = Append(@, "save"), !.pc = "save_dump"]]
          ELSE /\ file' = file
               /\ rq' = [rq EXCEPT ![r] =
                      [@ EXCEPT !.eff = Append(@, "save"), !.wr = "open_failed",
                                !.pc = "log"]]
    /\ UNCHANGED <<configured, lastWriter>>

\* Line 34: open(VIDEO_STORE_FILE, "w") creates or truncates the file, or
\* raises and leaves it alone (the exception is swallowed at line 36).
save_last_video_open(r) ==
    /\ rq[r].pc = "save_open"
    /\ \E opened \in BOOLEAN :
          IF opened
          THEN /\ file' = [exists |-> TRUE, content |-> <<>>]
               /\ rq' = [rq EXCEPT ![r] =
                      [@ EXCEPT !.eff = Append(@, "save"), !.pc = "save_dump"]]
          ELSE /\ file' = file
               /\ rq' = [rq EXCEPT ![r] =
                      [@ EXCEPT !.eff = Append(@, "save"), !.wr = "open_failed",
                                !.pc = "log"]]
    /\ UNCHANGED <<configured, lastWriter>>

\* Line 35 and the end of the with block: json.dump fills the buffer and the
\* close flushes it at this descriptor's offset 0, or the flush raises and
\* nothing reaches the file (swallowed at line 36).
save_last_video_dump(r) ==
    /\ rq[r].pc = "save_dump"
    /\ \E flushed \in BOOLEAN :
          IF flushed
          THEN /\ file' = [file EXCEPT
                             !.content = WriteAt0(@, json_dump(rq[r].video_url))]
               /\ lastWriter' = r
               /\ rq' = [rq EXCEPT ![r] = [@ EXCEPT !.wr = "ok", !.pc = "log"]]
          ELSE /\ UNCHANGED <<file, lastWriter>>
               /\ rq' = [rq EXCEPT ![r] =
                      [@ EXCEPT !.wr = "dump_failed", !.pc = "log"]]
    /\ UNCHANGED configured

\* ---------------------------------------------------------------- index
\* index as it would be if a failure of the post were not caught around the
\* post alone: the page is rendered without the video.
index_log_uncaught(r) ==
    /\ rq[r].pc = "log"
    /\ rq[r].kind = "index"
    /\ \E o \in SinkOutcomes :
          rq' = [rq EXCEPT ![r] =
              [@ EXCEPT !.sink = o,
                        !.eff = Posted(@, "post page_visit", o),
                        !.resp = IF o \in {"raise", "timeout"} THEN Page(Null)
                                 ELSE Page(rq[r].video_url),
                        !.post = file,
                        !.pc = "done"]]
    /\ UNCHANGED <<file, configured, lastWriter>>

\* Lines 70-88: the page_visit event, posted when GOOGLE_SCRIPT_URL is set,
\* any failure of the post swallowed, and the page rendered with video_url.
index_log(r) ==
    /\ rq[r].pc = "log"
    /\ rq[r].kind = "index"
    /\ \E o \in SinkOutcomes :
          rq' = [rq EXCEPT ![r] =
              [@ EXCEPT !.sink = o,
                        !.eff = Posted(@, "post page_visit", o),
                        !.resp = Page(rq[r].video_url),
                        !.post = file,
                        !.pc = "done"]]
    /\ UNCHANGED <<file, configured, lastWriter>>

\* ----------------------------------------------------------- log_action
\* Line 104 as it would be if the comparison ignored case.
LogResult_anycase(password_attempt) ==
    IF password_attempt \in
          {Str(Secret), Str(<<"2", "3", "e", "5", "1", "a", "0", "5", "c", "1">>)}
    THEN "success"
    ELSE IF Truthy(password_attempt) THEN "failed"
    ELSE "clicked"

\* Line 104.
LogResult(password_attempt) ==
    IF password_attempt = Str(Secret) THEN "success"
    ELSE IF Truthy(password_attempt) THEN "failed"
    ELSE "clicked"

\* Line 102.
LogEvent(body, password_attempt) ==
    IF body.action # NoAction THEN body.action
    ELSE IF Truthy(password_attempt) THEN "password_attempt" ELSE "unknown"

\* Lines 98-101 raise: get_json(force=True) rejects the body, or the JSON
\* value has no get.
LogRaises(body) == body.form # "object"

LogErrorMessage(body) ==
    IF body.form = "malformed" THEN "400 Bad Request"
    ELSE "object has no attribute 'get'"

\* The whole handler, lines 97-126: it touches nothing shared.
log_action(r) ==
    /\ rq[r].pc = "new"
    /\ \E body \in LogBodies, o \in SinkOutcomes :
          LET password_attempt == Get(body.password, Str(<<>>))
          IN rq' = [rq EXCEPT ![r] =
                 IF LogRaises(body)
                 THEN [@ EXCEPT !.kind = "log_action", !.body = body,
                                !.pre = file, !.post = file,
                                !.resp = Error(LogErrorMessage(body)),
                                !.pc = "done"]
                 ELSE [@ EXCEPT !.kind = "log_action", !.body = body,
                                !.pre = file, !.post = file,
                                !.sink = o,
                                !.eff = Posted(@, "post " \o LogEvent(body, password_attempt), o),
                                !.resp = Ok(LogResult(password_attempt), Null),
                                !.pc = "done"]]
    /\ UNCHANGED <<file, configured, lastWriter>>

\* --------------------------------------------------------- upload_story
\* The validation as it would be without the check of the filename.
UploadInvalid_nofilename(files) ==
    IF ~files.has_video THEN "No video part" ELSE ""

\* Lines 136-141: the error the validation returns, "" when it passes.
UploadInvalid(files) ==
    IF ~files.has_video THEN "No video part"
    ELSE IF files.filename = <<>> THEN "No selected file"
    ELSE ""

\* The handler as it would be if the exception of the media host were
\* swallowed and the handler went on with an empty upload_result.
upload_story_call_swallow(r) ==
    /\ rq[r].pc = "new"
    /\ \E files \in UploadFiles, res \in ProviderResults :
          rq' = [rq EXCEPT ![r] =
              IF UploadInvalid(files) # ""
              THEN [@ EXCEPT !.kind = "upload_story", !.files = files,
                             !.pre = file, !.post = file,
                             !.resp = Error(UploadInvalid(files)),
                             !.pc = "done"]
              ELSE [@ EXCEPT !.kind = "upload_story", !.files = files,
                             !.pre = file,
                             !.provider = res,
                             !.eff = Append(@, "upload"),
                             !.video_url = Get(res.secure_url, Null),
                             !.pc = "save_open"]]
    /\ UNCHANGED <<file, configured, lastWriter>>

\* Lines 135-153 and 178-180: the validation and the call of the media
\* host, whose exception becomes the error response.
upload_story_call(r) ==
    /\ rq[r].pc = "new"
    /\ \E files \in UploadFiles, res \in ProviderResults :
          rq' = [rq EXCEPT ![r] =
              IF UploadInvalid(files) # ""
              THEN [@ EXCEPT !.kind = "upload_story", !.files = files,
                             !.pre = file, !.post = file,
                             !.resp = Error(UploadInvalid(files)),
                             !.pc = "done"]
              ELSE IF res.raises
              THEN [@ EXCEPT !.kind = "upload_story", !.files = files,
                             !.pre = file, !.post = file,
                             !.provider = res,
                             !.eff = Append(@, "upload"),
                             !.resp = Error("upload failed"),
                             !.pc = "done"]
              ELSE [@ EXCEPT !.kind = "upload_story", !.files = files,
                             !.pre = file,
                             !.provider = res,
                             !.eff = Append(@, "upload"),
                             !.video_url = Get(res.secure_url, Null),
                             !.pc = "save_open"]]
    /\ UNCHANGED <<file, configured, lastWriter>>

\* Lines 157-176: the video_uploaded event, any failure of the post
\* swallowed, and the ok response.
upload_story_log(r) ==
    /\ rq[r].pc = "log"
    /\ rq[r].kind = "upload_story"
    /\ \E o \in SinkOutcomes :
          rq' = [rq EXCEPT ![r] =
              [@ EXCEPT !.sink = o,
                        !.eff = Posted(@, "post video_uploaded", o),
                        !.resp = Ok("", rq[r].video_url),
                        !.post = file,
                        !.pc = "done"]]
    /\ UNCHANGED <<file, configured, lastWriter>>

\* ------------------------------------------------------------- process
\* Lines 12-17: the environment is read once, at start.  Between two
\* requests the process may be restarted with GOOGLE_SCRIPT_URL set or
\* unset; last_video.json stays.
restart ==
    /\ \A r \in Reqs : rq[r].pc \in {"new", "done", "gone"}
    /\ configured' = ~configured
    /\ UNCHANGED <<file, rq, lastWriter>>

\* Flask pops the request context once the response of the view function
\* (lines 88, 122-126, 137, 141, 176-180) has been sent: the request and its
\* locals are gone.
teardown(r) ==
    /\ rq[r].pc = "done"
    /\ rq' = [rq EXCEPT ![r] = [NewReq EXCEPT !.pc = "gone"]]
    /\ UNCHANGED <<file, configured, lastWriter>>

\* ------------------------------------------------------- specifications
Step(r) ==
    \/ get_last_video_remote(r)
    \/ get_last_video_fallback(r)
    \/ save_last_video_open(r)
    \/ save_last_video_dump(r)
    \/ index_log(r)
    \/ log_action(r)
    \/ upload_story_call(r)
    \/ upload_story_log(r)
    \/ teardown(r)

\* Requests are numbered in the order of their arrival.  It is the turn of
\* r when the request before it has been answered, those before that are
\* gone and those after r have not begun.
Alone(r) ==
    \A q \in Reqs \ {r} :
        rq[q].pc = (IF q < r - 1 THEN "gone" ELSE IF q < r THEN "done" ELSE "new")

\* The context of r is popped when the request after r, if any, has been
\* answered.
Settled(r) ==
    \A q \in Reqs \ {r} :
        rq[q].pc = (IF q < r THEN "gone" ELSE IF q = r + 1 THEN "done" ELSE "new")

\* Requests served by concurrent threads: their steps interleave.
Next == restart \/ \E r \in Reqs : Step(r)

Spec == Init /\ [][Next]_vars

\* Requests served one at a time, each answered before the next begins; a
\* request stays for comparison until its successor has been answered.
SeqNext ==
    \/ restart
    \/ \E r \in Reqs :
        \/ Alone(r) /\ get_last_video_remote(r)
        \/ Alone(r) /\ get_last_video_fallback(r)
        \/ Alone(r) /\ save_last_video_open(r)
        \/ Alone(r) /\ save_last_video_dump(r)
        \/ Alone(r) /\ index_log(r)
        \/ Alone(r) /\ log_action(r)
        \/ Alone(r) /\ upload_story_call(r)
        \/ Alone(r) /\ upload_story_log(r)
        \/ Settled(r) /\ teardown(r)

SeqSpec == Init /\ [][SeqNext]_vars

\* ================================================================ claims
Done(r) == rq[r].pc = "done"

\* The remote resolution of an index request yielded a non-empty video_url.
RemoteHit(q) == q.kind = "index" /\ Truthy(RemoteVideoUrl(q.remote))

\* The remote resolution of an index request failed: the GET raised, the body
\* was no JSON object, or video_url was missing or empty.
RemoteFailed(q) == q.kind = "index" /\ ~Truthy(RemoteVideoUrl(q.remote))

Empty == [exists |-> TRUE, content |-> <<>>]
Holding(v) == [exists |-> TRUE, content |-> json_dump(v)]

\* ------------------------------------------------------------------- C1
\* C1 as stated: a resolve whose remote GET yields a non-empty video_url U
\* returns U and leaves the cache record holding exactly U.
C1_Original ==
    \A r \in Reqs :
        Done(r) /\ RemoteHit(rq[r])
            => /\ rq[r].resp = Page(rq[r].remote.video_url)
               /\ rq[r].post = Holding(rq[r].remote.video_url)

\* C1 amended: such a resolve, served with no other request in progress,
\* returns U whatever the cache held and without reading it; the cache record
\* holds exactly U afterwards when the write succeeded, is as before when the
\* open failed, and is an empty file when the flush failed.
C1_RemoteHit ==
    \A r \in Reqs :
        Done(r) /\ RemoteHit(rq[r])
            => /\ rq[r].resp = Page(rq[r].remote.video_url)
               /\ rq[r].rd = "none"
               /\ rq[r].wr \in {"ok", "open_failed", "dump_failed"}
               /\ rq[r].wr = "ok" => rq[r].post = Holding(rq[r].remote.video_url)
               /\ rq[r].wr = "open_failed" => rq[r].post = rq[r].pre
               /\ rq[r].wr = "dump_failed" => rq[r].post = Empty

\* A resolve has replaced a longer cached URL by the remote's shorter one.
C1_Witness ==
    \E r \in Reqs :
        /\ Done(r) /\ RemoteHit(rq[r]) /\ rq[r].wr = "ok"
        /\ rq[r].pre = Record(U2)
        /\ rq[r].remote.video_url = Str(U1)
        /\ rq[r].post = Record(U1)

\* ------------------------------------------------------------------- C2
\* What the cache record, as it was before the call, gives a reader.
Cached(f, rd) ==
    IF f.exists /\ rd = "read" /\ json_load_ok(f.content)
    THEN json_load(f.content) ELSE Null

\* C2: a resolve whose remote resolution fails, served with no other request
\* in progress, returns the video_url of the record the cache held before the
\* call, none when there is no record or it cannot be read; it writes nothing,
\* the cache is as before, and the page is rendered (nothing is raised).
C2_RemoteFailed ==
    \A r \in Reqs :
        Done(r) /\ RemoteFailed(rq[r])
            => /\ rq[r].resp = Page(Cached(rq[r].pre, rq[r].rd))
               /\ rq[r].rd \in {"absent", "failed", "read"}
               /\ rq[r].rd = "absent" <=> ~rq[r].pre.exists
               /\ rq[r].wr = "none"
               /\ rq[r].post = rq[r].pre

\* A failed resolve has returned the URL the cache held.
C2_Witness ==
    \E r \in Reqs :
        /\ Done(r) /\ RemoteFailed(rq[r])
        /\ rq[r].remote.net = "ok" /\ rq[r].remote.json = "invalid"
        /\ rq[r].pre = Record(U2)
        /\ rq[r].resp = Page(Str(U2))

\* ------------------------------------------------------------------- C3
\* C3 as stated: a request that finds a non-empty video_url in the cache
\* record leaves a non-empty video_url in it.
C3_Original ==
    \A r \in Reqs : Done(r) /\ HasUrl(rq[r].pre) => HasUrl(rq[r].post)

\* ------------------------------------------------------------------- C4
\* An upload that passed the validation and whose media-host call returned.
UploadReturned(q) ==
    q.kind = "upload_story" /\ q.files.has_video /\ q.files.filename # <<>>
        /\ ~q.provider.raises

\* No request between r and q wrote to the cache.
NoWriteBetween(r, q) ==
    \A m \in Reqs : r < m /\ m < q => rq[m].wr = "none"

\* An upload r whose media-host call returned, and the next resolve q, whose
\* remote resolution failed, with no write to the cache in between.
UploadThenResolve(r, q) ==
    /\ r < q /\ Done(r) /\ Done(q)
    /\ UploadReturned(rq[r])
    /\ RemoteFailed(rq[q])
    /\ NoWriteBetween(r, q)

\* C4 as stated: the upload answers {status: ok, video_url: V} with V the
\* non-empty URL of the media host, and the next resolve with the remote
\* unreachable returns V from the cache.
C4_Original ==
    \A r, q \in Reqs :
        UploadThenResolve(r, q)
            => /\ rq[r].resp = Ok("", rq[r].provider.secure_url)
               /\ Truthy(rq[r].provider.secure_url)
               /\ rq[q].resp = Page(rq[r].provider.secure_url)

\* C4 amended: the upload answers {status: ok, video_url: V} with V the
\* non-empty URL of the media host whether or not its cache write succeeded;
\* the next resolve with the remote unreachable returns V when the upload's
\* cache write succeeded and the resolve could open the file.
C4_UploadCached ==
    /\ \A r \in Reqs :
          Done(r) /\ UploadReturned(rq[r])
              => /\ rq[r].resp = Ok("", rq[r].provider.secure_url)
                 /\ Truthy(rq[r].provider.secure_url)
    /\ \A r, q \in Reqs :
          UploadThenResolve(r, q) /\ rq[r].wr = "ok" /\ rq[q].rd = "read"
              => rq[q].resp = Page(rq[r].provider.secure_url)

\* An upload has replaced the cached URL and the next resolve, its remote
\* GET raising, has returned the uploaded one.
C4_Witness ==
    \E r, q \in Reqs :
        /\ UploadThenResolve(r, q)
        /\ rq[r].pre = Record(U2)
        /\ rq[r].provider.secure_url = Str(U1)
        /\ rq[r].wr = "ok"
        /\ rq[q].remote.net = "raise"
        /\ rq[q].resp = Page(Str(U1))

\* ------------------------------------------------------------------- C5
\* C5: an upload with no "video" part answers "No video part", one whose
\* part has an empty filename answers "No selected file"; neither calls the
\* media host, writes the cache or sends an event.
C5_Validation ==
    \A r \in Reqs :
        Done(r) /\ rq[r].kind = "upload_story"
            => /\ ~rq[r].files.has_video => rq[r].resp = Error("No video part")
               /\ rq[r].files.has_video /\ rq[r].files.filename = <<>>
                     => rq[r].resp = Error("No selected file")
               /\ ~rq[r].files.has_video \/ rq[r].files.filename = <<>>
                     => /\ rq[r].eff = <<>>
                        /\ rq[r].provider = NoProvider
                        /\ rq[r].wr = "none"
                        /\ rq[r].sink = "none"
                        /\ rq[r].post = rq[r].pre

\* Both rejections have been answered, the cache holding a URL.
C5_Witness ==
    \E r, q \in Reqs :
        /\ Done(r) /\ rq[r].kind = "upload_story" /\ ~rq[r].files.has_video
        /\ Done(q) /\ rq[q].kind = "upload_story" /\ rq[q].files.has_video
        /\ rq[q].files.filename = <<>>
        /\ rq[q].resp = Error("No selected file")
        /\ HasUrl(file)

\* ------------------------------------------------------------------- C6
\* C6 as stated: every well-formed JSON body is answered {status: ok,
\* result: R}, R success for the secret, failed for any other supplied
\* password, clicked when no password field was supplied.
C6_Original ==
    \A r \in Reqs :
        Done(r) /\ rq[r].kind = "log_action"
                /\ rq[r].body.form \in {"array", "object"}
            => /\ rq[r].resp.status = "ok"
               /\ rq[r].resp.result =
                     (IF rq[r].body.password = Str(Secret) THEN "success"
                      ELSE IF rq[r].body.password # Absent THEN "failed"
                      ELSE "clicked")

\* C6 amended: every body that is a JSON object is answered {status: ok,
\* result: R}, whatever the sink call did: R is success for the secret
\* exactly, failed for any other non-empty password, clicked when the
\* password field is missing, null or empty.  A body that is not a JSON object,
\* well-formed or not, is answered {status: error}.
C6_Result ==
    \A r \in Reqs :
        Done(r) /\ rq[r].kind = "log_action"
            => /\ rq[r].body.form = "object"
                     => rq[r].resp =
                           Ok(IF rq[r].body.password = Str(Secret) THEN "success"
                              ELSE IF rq[r].body.password \notin {Absent, Null, Str(<<>>)}
                                   THEN "failed"
                              ELSE "clicked", Null)
               /\ rq[r].body.form # "object"
                     => rq[r].resp.status = "error" /\ rq[r].sink = "none"

\* The secret has been answered success though the sink call raised, and the
\* secret in lower case failed.
C6_Witness ==
    \E r, q \in Reqs :
        /\ Done(r) /\ rq[r].kind = "log_action"
        /\ rq[r].body.password = Str(Secret)
        /\ rq[r].sink = "raise"
        /\ rq[r].resp = Ok("success", Null)
        /\ Done(q) /\ rq[q].kind = "log_action"
        /\ rq[q].body.password # Str(Secret)
        /\ rq[q].resp = Ok("failed", Null)

\* ------------------------------------------------------------------- C7
\* All that a request met but the outcome of its sink call.
Key(q) == <<q.kind, q.body, q.files, q.remote, q.provider, q.wr, q.rd, q.pre>>

\* C7: two requests, each served with no other in progress, that differ
\* only in the outcome of the sink call (it returned, raised, or was skipped
\* for want of GOOGLE_SCRIPT_URL) get equal responses and leave equal caches.
C7_SinkIndependent ==
    \A r, q \in Reqs :
        r < q /\ Done(r) /\ Done(q) /\ Key(rq[r]) = Key(rq[q])
            => rq[r].resp = rq[q].resp /\ rq[r].post = rq[q].post

\* Two page views alike but for the sink call, which raised in one and was
\* skipped in the other.
C7_Witness ==
    \E r, q \in Reqs :
        /\ Done(r) /\ Done(q) /\ Key(rq[r]) = Key(rq[q])
        /\ rq[r].kind = "index"
        /\ HasUrl(rq[r].pre)
        /\ rq[r].sink = "raise"
        /\ rq[q].sink = "skipped"

\* ------------------------------------------------------------------- C8
IsPrefix(a, b) == Len(a) <= Len(b) /\ a = SubSeq(b, 1, Len(a))

\* C8: an upload whose media-host call raises is answered {status: error,
\* error: message}, the cache as before and no event sent; an upload writes
\* the cache only after the media host returned and sends video_uploaded
\* only after the cache write.
C8_ProviderFailure ==
    \A r \in Reqs :
        rq[r].kind = "upload_story"
            => /\ Done(r) /\ rq[r].provider.raises
                     => /\ rq[r].resp.status = "error"
                        /\ rq[r].resp.error # ""
                        /\ rq[r].eff = <<"upload">>
                        /\ rq[r].wr = "none"
                        /\ rq[r].sink = "none"
                        /\ rq[r].post = rq[r].pre
               /\ IsPrefix(rq[r].eff, <<"upload", "save", "post video_uploaded">>)
               /\ Len(rq[r].eff) >= 2 => UploadReturned(rq[r])

\* The media host has failed an upload, the cache holding a URL.
C8_Witness ==
    \E r \in Reqs :
        /\ Done(r) /\ rq[r].kind = "upload_story" /\ rq[r].provider.raises
        /\ HasUrl(rq[r].pre)
        /\ rq[r].resp = Error("upload failed")

\* ------------------------------------------------------------------- C9
\* C9 as stated: when all the concurrent cache writes have been performed
\* and their requests answered, the cache record holds exactly the URL of
\* the write performed last.
C9_Original ==
    (\A r \in Reqs : Done(r) /\ rq[r].wr = "ok")
        => file = Holding(rq[lastWriter].video_url)

\* ------------------------------------------------------------------ C10
\* The request has entered save_last_video.
SaveStarted(q) == \E i \in 1..Len(q.eff) : q.eff[i] = "save"

\* C10 as stated: a resolve whose remote call fails, the cache holding a
\* non-empty URL when it began and the file readable, returns that URL or
\* the URL another request is writing, never none.
C10_Original ==
    \A r \in Reqs :
        Done(r) /\ RemoteFailed(rq[r]) /\ HasUrl(rq[r].pre) /\ rq[r].rd = "read"
            => rq[r].resp.video_url \in
                  {json_load(rq[r].pre.content)}
                  \cup {rq[q].video_url : q \in {m \in Reqs \ {r} : SaveStarted(rq[m])}}

====
